---- MODULE Spec2Model ----
(***************************************************************************)
(* Model of src/app.py: the streaming recommendation orchestrator          *)
(* (respond), the Spotify lookup (spotify_rec), the process-wide           *)
(* cancellation flag (stop_inference / cancel_inference) and the           *)
(* Prometheus metrics.                                                     *)
(*                                                                         *)
(* Text is modelled as a sequence of pieces (each piece a string), so      *)
(* that f-string formatting, "\n".join and += are concatenations that can  *)
(* be told apart: the empty string is <<>>, and Python's None is the       *)
(* reserved one-piece value None.                                          *)
(*                                                                         *)
(* respond is a generator function: calling it only creates the generator  *)
(* object; the body runs when the consumer iterates.  A call therefore     *)
(* moves through                                                           *)
(*   "idle" -> "created" -> "lookup" -> "stream" <-> "chunk" -> "done".    *)
(***************************************************************************)
EXTENDS Integers, Sequences, FiniteSets, TLC

\* ------------------------------------------------------------------ bounds
MaxChunks == 3

MaxRecs == 2

MaxCancels == 2

MaxTurns == 2

\* The generate calls that may be in flight together.
Calls == {"A", "B"}

\* ------------------------------------------------------------- text values
None == <<"<None>">>

Truthy(x) == x # None /\ x # <<>>

\* str(x) as an f-string placeholder renders it
Str(x) == IF x = None THEN <<"None">> ELSE x

RECURSIVE Join(_, _)
\* sep.join(list)
Join(list, sep) ==
    IF list = <<>> THEN <<>>
    ELSE IF Len(list) = 1 THEN Head(list)
    ELSE Head(list) \o sep \o Join(Tail(list), sep)

IsPrefix(p, s) == Len(p) <= Len(s) /\ SubSeq(s, 1, Len(p)) = p

IsSuffix(p, s) == Len(p) <= Len(s) /\ SubSeq(s, Len(s) - Len(p) + 1, Len(s)) = p

\* ---------------------------------------------------------- fixed strings
MissingCredentialsText == <<"Please provide Spotify API credentials.">>

NoTracksText == <<"No tracks found for the given track name and artist.">>

NoRecommendationsText == <<"No recommendations found.">>

CancelMarker == <<"\n\n*Inference cancelled.*">>

LocalModelError == <<"*Error: Local model not configured. Please uncomment the torch/transformers imports and pipeline initialization in app.py, or uncheck 'Use Local Model'.*">>

DefaultSystemMessage == <<"You are a music expert chatbot that provides song recommendations based on user preferences.">>

\* f"{track_name} by {artist}"
TurnLabel(track_name, artist) == Str(track_name) \o <<" by ">> \o Str(artist)

\* f"**Spotify Recommendations based on '{track_name}' by {artist}:**\n{recommendations}\n\n"
Header(track_name, artist, recommendations) ==
    <<"**Spotify Recommendations based on '">> \o Str(track_name) \o <<"' by ">>
        \o Str(artist) \o <<":**\n">> \o Str(recommendations) \o <<"\n\n">>

\* f"I like '{track_name}' by {artist}. Here are some Spotify recommendations:\n{recommendations}\n\nCan you tell me more ..."
UserMessage(track_name, artist, recommendations) ==
    <<"I like '">> \o Str(track_name) \o <<"' by ">> \o Str(artist)
        \o <<". Here are some Spotify recommendations:\n">> \o Str(recommendations)
        \o <<"\n\nCan you tell me more about these songs and suggest why I might enjoy them?">>

\* ------------------------------------------------- the recommendation provider
\* Tracks the provider may return: a name and a list of artists.
Track1 == [name |-> <<"Perfect">>, artists |-> << <<"Ed Sheeran">>, <<"Beyonce">> >>]

Track2 == [name |-> <<"Attention">>, artists |-> << <<"Charlie Puth">> >>]

ProviderTracks == {Track1, Track2}

SeqsUpTo(S, n) == UNION {[1..k -> S] : k \in 0..n}

\* What the provider answers to one lookup: the search matches (their URIs, in
\* ranking order) and the recommended tracks (in provider order).
ProviderAnswers ==
    [items : {<<>>, <<"uri:1">>, <<"uri:2", "uri:1">>},
     tracks : SeqsUpTo(ProviderTracks, MaxRecs)]

\* Variant: each entry names the track's last artist.
RecommendationListLastArtist(tracks) ==
    [i \in 1..Len(tracks) |->
        tracks[i].name \o <<" by ">> \o tracks[i].artists[Len(tracks[i].artists)]]

\* [f"{track['name']} by {track['artists'][0]['name']}" for track in recommendations]
RecommendationList(tracks) ==
    [i \in 1..Len(tracks) |-> tracks[i].name \o <<" by ">> \o tracks[i].artists[1]]

\* Variant: the credential check passes unless both credentials are missing.
spotify_rec_and(track_name, artist, client_id, client_secret, p) ==
    IF ~Truthy(client_id) /\ ~Truthy(client_secret) THEN
        [text |-> MissingCredentialsText, failed |-> 1, successful |-> 0,
         processed |-> 0, requests |-> <<>>]
    ELSE
        LET search == [op |-> "search",
                       arg |-> <<"track:">> \o Str(track_name) \o <<" artist:">> \o Str(artist),
                       reply |-> p.items]
        IN  IF p.items = <<>> THEN
                [text |-> NoTracksText, failed |-> 1, successful |-> 0,
                 processed |-> 0, requests |-> <<search>>]
            ELSE
                LET track_uri == p.items[1]
                    recs == [op |-> "recommendations", arg |-> <<track_uri>>, reply |-> p.tracks]
                IN  IF p.tracks = <<>> THEN
                        [text |-> NoRecommendationsText, failed |-> 1, successful |-> 0,
                         processed |-> 0, requests |-> <<search, recs>>]
                    ELSE
                        [text |-> Join(RecommendationList(p.tracks), <<"\n">>),
                         failed |-> 0, successful |-> 1, processed |-> 1,
                         requests |-> <<search, recs>>]

\* Variant: the empty-recommendations path returns without counting the failure.
spotify_rec_uncounted(track_name, artist, client_id, client_secret, p) ==
    IF ~Truthy(client_id) \/ ~Truthy(client_secret) THEN
        [text |-> MissingCredentialsText, failed |-> 1, successful |-> 0,
         processed |-> 0, requests |-> <<>>]
    ELSE
        LET search == [op |-> "search",
                       arg |-> <<"track:">> \o Str(track_name) \o <<" artist:">> \o Str(artist),
                       reply |-> p.items]
        IN  IF p.items = <<>> THEN
                [text |-> NoTracksText, failed |-> 1, successful |-> 0,
                 processed |-> 0, requests |-> <<search>>]
            ELSE
                LET track_uri == p.items[1]
                    recs == [op |-> "recommendations", arg |-> <<track_uri>>, reply |-> p.tracks]
                IN  IF p.tracks = <<>> THEN
                        [text |-> NoRecommendationsText, failed |-> 0, successful |-> 0,
                         processed |-> 0, requests |-> <<search, recs>>]
                    ELSE
                        [text |-> Join(RecommendationList(p.tracks), <<"\n">>),
                         failed |-> 0, successful |-> 1, processed |-> 1,
                         requests |-> <<search, recs>>]

\* Variant: the failure paths return no text (None).
spotify_rec_silent(track_name, artist, client_id, client_secret, p) ==
    IF ~Truthy(client_id) \/ ~Truthy(client_secret) THEN
        [text |-> None, failed |-> 1, successful |-> 0,
         processed |-> 0, requests |-> <<>>]
    ELSE
        LET search == [op |-> "search",
                       arg |-> <<"track:">> \o Str(track_name) \o <<" artist:">> \o Str(artist),
                       reply |-> p.items]
        IN  IF p.items = <<>> THEN
                [text |-> None, failed |-> 1, successful |-> 0,
                 processed |-> 0, requests |-> <<search>>]
            ELSE
                LET track_uri == p.items[1]
                    recs == [op |-> "recommendations", arg |-> <<track_uri>>, reply |-> p.tracks]
                IN  IF p.tracks = <<>> THEN
                        [text |-> None, failed |-> 1, successful |-> 0,
                         processed |-> 0, requests |-> <<search, recs>>]
                    ELSE
                        [text |-> Join(RecommendationList(p.tracks), <<"\n">>),
                         failed |-> 0, successful |-> 1, processed |-> 1,
                         requests |-> <<search, recs>>]

\* Variant: a search without a match is counted as a processed request.
spotify_rec_counts_failures(track_name, artist, client_id, client_secret, p) ==
    IF ~Truthy(client_id) \/ ~Truthy(client_secret) THEN
        [text |-> MissingCredentialsText, failed |-> 1, successful |-> 0,
         processed |-> 0, requests |-> <<>>]
    ELSE
        LET search == [op |-> "search",
                       arg |-> <<"track:">> \o Str(track_name) \o <<" artist:">> \o Str(artist),
                       reply |-> p.items]
        IN  IF p.items = <<>> THEN
                [text |-> NoTracksText, failed |-> 1, successful |-> 0,
                 processed |-> 1, requests |-> <<search>>]
            ELSE
                LET track_uri == p.items[1]
                    recs == [op |-> "recommendations", arg |-> <<track_uri>>, reply |-> p.tracks]
                IN  IF p.tracks = <<>> THEN
                        [text |-> NoRecommendationsText, failed |-> 1, successful |-> 0,
                         processed |-> 0, requests |-> <<search, recs>>]
                    ELSE
                        [text |-> Join(RecommendationList(p.tracks), <<"\n">>),
                         failed |-> 0, successful |-> 1, processed |-> 1,
                         requests |-> <<search, recs>>]

\* spotify_rec(track_name, artist, client_id, client_secret) against a provider
\* answering p.  The result carries the returned text, the counter increments
\* the call made and the provider requests it issued, in order, each with the
\* provider's reply.
spotify_rec(track_name, artist, client_id, client_secret, p) ==
    IF ~Truthy(client_id) \/ ~Truthy(client_secret) THEN
        [text |-> MissingCredentialsText, failed |-> 1, successful |-> 0,
         processed |-> 0, requests |-> <<>>]
    ELSE
        LET search == [op |-> "search",
                       arg |-> <<"track:">> \o Str(track_name) \o <<" artist:">> \o Str(artist),
                       reply |-> p.items]
        IN  IF p.items = <<>> THEN
                [text |-> NoTracksText, failed |-> 1, successful |-> 0,
                 processed |-> 0, requests |-> <<search>>]
            ELSE
                LET track_uri == p.items[1]
                    recs == [op |-> "recommendations", arg |-> <<track_uri>>, reply |-> p.tracks]
                IN  IF p.tracks = <<>> THEN
                        [text |-> NoRecommendationsText, failed |-> 1, successful |-> 0,
                         processed |-> 0, requests |-> <<search, recs>>]
                    ELSE
                        [text |-> Join(RecommendationList(p.tracks), <<"\n">>),
                         failed |-> 0, successful |-> 1, processed |-> 1,
                         requests |-> <<search, recs>>]

\* ------------------------------------------------------------ message list
RECURSIVE HistoryMessagesUnfiltered(_)
\* Variant: the assistant side is appended without the emptiness test.
HistoryMessagesUnfiltered(history) ==
    IF history = <<>> THEN <<>>
    ELSE LET val == Head(history)
         IN  (IF Truthy(val[1]) THEN <<[role |-> "user", content |-> val[1]]>> ELSE <<>>)
             \o <<[role |-> "assistant", content |-> val[2]]>>
             \o HistoryMessagesUnfiltered(Tail(history))

RECURSIVE HistoryMessages(_)
\* for val in history: append the non-empty sides
HistoryMessages(history) ==
    IF history = <<>> THEN <<>>
    ELSE LET val == Head(history)
         IN  (IF Truthy(val[1]) THEN <<[role |-> "user", content |-> val[1]]>> ELSE <<>>)
             \o (IF Truthy(val[2]) THEN <<[role |-> "assistant", content |-> val[2]]>> ELSE <<>>)
             \o HistoryMessages(Tail(history))

BuildMessages(system_message, history, user_message) ==
    <<[role |-> "system", content |-> system_message]>>
        \o HistoryMessages(history)
        \o <<[role |-> "user", content |-> user_message]>>

\* Variant: the snapshot holds the current turn only.
SnapshotTurnOnly(history, track_name, artist, response) ==
    << <<TurnLabel(track_name, artist), response>> >>

\* history + [(f"{track_name} by {artist}", response)]
Snapshot(history, track_name, artist, response) ==
    history \o << <<TurnLabel(track_name, artist), response>> >>

\* -------------------------------------------------------------------- state
VARIABLES
    stop_inference,              \* the process-wide cancellation flag
    RECOMMENDATIONS_PROCESSED,   \* Counter
    SUCCESSFUL_RECOMMENDATIONS,  \* Counter
    FAILED_RECOMMENDATIONS,      \* Counter
    RECOMMENDATION_DURATION,     \* Summary: per call, the observations recorded so far,
                                 \* each the number of snapshots the timed span covered
    USER_INTERACTIONS,           \* Counter
    CANCELLED_RECOMMENDATIONS,   \* Counter
    pc,                          \* per call: where the generator stands
    args,                        \* per call: the arguments of respond
    history,                     \* per call: the local `history` (None replaced by [])
    lookup,                      \* per call: what spotify_rec returned and requested
    messages,                    \* per call: the message list sent to the backend
    response,                    \* per call: the accumulated response text
    chunk,                       \* per call: the chunk just received from the stream
    out,                         \* per call: the snapshots yielded so far
    cancel_calls,                \* how often cancel_inference has been invoked
    cancel_request               \* per call (history variable): the fate of a cancel
                                 \* issued since the call's body started

metrics == <<RECOMMENDATIONS_PROCESSED, SUCCESSFUL_RECOMMENDATIONS, FAILED_RECOMMENDATIONS,
             RECOMMENDATION_DURATION, USER_INTERACTIONS, CANCELLED_RECOMMENDATIONS>>

counters == <<RECOMMENDATIONS_PROCESSED, SUCCESSFUL_RECOMMENDATIONS, FAILED_RECOMMENDATIONS,
              USER_INTERACTIONS, CANCELLED_RECOMMENDATIONS>>

locals == <<args, history, lookup, messages, response, chunk, out>>

vars == <<stop_inference, metrics, pc, locals, cancel_calls, cancel_request>>

NoArgs ==
    [track_name |-> <<>>, artist |-> <<>>, history |-> None, system_message |-> <<>>,
     use_local_model |-> FALSE, client_id |-> None, client_secret |-> None]

NoLookup == [text |-> <<>>, failed |-> 0, successful |-> 0, processed |-> 0, requests |-> <<>>]

\* Module load: the flag is False (line 71), the metrics are zero, nothing is called.
Init ==
    /\ stop_inference = FALSE
    /\ RECOMMENDATIONS_PROCESSED = 0
    /\ SUCCESSFUL_RECOMMENDATIONS = 0
    /\ FAILED_RECOMMENDATIONS = 0
    /\ RECOMMENDATION_DURATION = [c \in Calls |-> <<>>]
    /\ USER_INTERACTIONS = 0
    /\ CANCELLED_RECOMMENDATIONS = 0
    /\ pc = [c \in Calls |-> "idle"]
    /\ args = [c \in Calls |-> NoArgs]
    /\ history = [c \in Calls |-> <<>>]
    /\ lookup = [c \in Calls |-> NoLookup]
    /\ messages = [c \in Calls |-> <<>>]
    /\ response = [c \in Calls |-> <<>>]
    /\ chunk = [c \in Calls |-> None]
    /\ out = [c \in Calls |-> <<>>]
    /\ cancel_calls = 0
    /\ cancel_request = [c \in Calls |-> "none"]

\* ------------------------------------------------------------------ actions
\* @RECOMMENDATION_DURATION.time() around a generator function: the timer wraps
\* only the call that creates the generator object, so the observation is
\* recorded when respond(...) returns the generator, before its body has run.
TimedSpan(c) == Len(out[c])

\* respond(track_name, artist, history, ...) is called with arguments a.
Respond(c, a) ==
    /\ pc[c] = "idle"
    /\ pc' = [pc EXCEPT ![c] = "created"]
    /\ args' = [args EXCEPT ![c] = a]
    /\ RECOMMENDATION_DURATION' =
           [RECOMMENDATION_DURATION EXCEPT ![c] = Append(@, TimedSpan(c))]
    /\ UNCHANGED <<stop_inference, counters, history, lookup, messages, response, chunk, out,
                   cancel_calls, cancel_request>>

\* Variant: the body starts without resetting the flag.
StartWithoutReset(c) ==
    /\ pc[c] = "created"
    /\ stop_inference' = stop_inference
    /\ USER_INTERACTIONS' = USER_INTERACTIONS + 1
    /\ history' = [history EXCEPT ![c] = IF args[c].history = None THEN <<>> ELSE args[c].history]
    /\ pc' = [pc EXCEPT ![c] = "lookup"]
    /\ cancel_request' = [cancel_request EXCEPT ![c] = "none"]
    /\ UNCHANGED <<RECOMMENDATIONS_PROCESSED, SUCCESSFUL_RECOMMENDATIONS, FAILED_RECOMMENDATIONS,
                   RECOMMENDATION_DURATION, CANCELLED_RECOMMENDATIONS, args, lookup, messages,
                   response, chunk, out, cancel_calls>>

\* First resumption of the generator: lines 99-104.
Start(c) ==
    /\ pc[c] = "created"
    /\ stop_inference' = FALSE
    /\ USER_INTERACTIONS' = USER_INTERACTIONS + 1
    /\ history' = [history EXCEPT ![c] = IF args[c].history = None THEN <<>> ELSE args[c].history]
    /\ pc' = [pc EXCEPT ![c] = "lookup"]
    /\ cancel_request' = [cancel_request EXCEPT ![c] = "none"]
    /\ UNCHANGED <<RECOMMENDATIONS_PROCESSED, SUCCESSFUL_RECOMMENDATIONS, FAILED_RECOMMENDATIONS,
                   RECOMMENDATION_DURATION, CANCELLED_RECOMMENDATIONS, args, lookup, messages,
                   response, chunk, out, cancel_calls>>

\* Variant: the handler adds no notice.
OnLocalModelMissingSilent(resp) == resp

\* response += the configuration-error notice (line 142)
OnLocalModelMissing(resp) == resp \o LocalModelError

\* Lines 107-144: the blocking lookup against a provider answering p, the message
\* list, the header; then either the API stream is opened (line 147) or, with
\* use_local_model, the name `pipe` is undefined (line 14 is commented out) and
\* the NameError handler yields the configuration error and returns.
Prepare(c, p) ==
    /\ pc[c] = "lookup"
    /\ LET a == args[c]
           r == spotify_rec(a.track_name, a.artist, a.client_id, a.client_secret, p)
           recommendations == r.text
           user_message == UserMessage(a.track_name, a.artist, recommendations)
           header == Header(a.track_name, a.artist, recommendations)
       IN  /\ lookup' = [lookup EXCEPT ![c] = r]
           /\ SUCCESSFUL_RECOMMENDATIONS' = SUCCESSFUL_RECOMMENDATIONS + r.successful
           /\ RECOMMENDATIONS_PROCESSED' = RECOMMENDATIONS_PROCESSED + r.processed
           /\ messages' = [messages EXCEPT ![c] =
                              BuildMessages(a.system_message, history[c], user_message)]
           /\ IF a.use_local_model THEN
                  /\ FAILED_RECOMMENDATIONS' = FAILED_RECOMMENDATIONS + r.failed + 1
                  /\ response' = [response EXCEPT ![c] = OnLocalModelMissing(header)]
                  /\ out' = [out EXCEPT ![c] =
                                Append(@, Snapshot(history[c], a.track_name, a.artist,
                                                   OnLocalModelMissing(header)))]
                  /\ pc' = [pc EXCEPT ![c] = "done"]
              ELSE
                  /\ FAILED_RECOMMENDATIONS' = FAILED_RECOMMENDATIONS + r.failed
                  /\ response' = [response EXCEPT ![c] = header]
                  /\ out' = out
                  /\ pc' = [pc EXCEPT ![c] = "stream"]
    /\ UNCHANGED <<stop_inference, RECOMMENDATION_DURATION, USER_INTERACTIONS,
                   CANCELLED_RECOMMENDATIONS, args, history, chunk, cancel_calls, cancel_request>>

\* The stream delivers its next chunk, whose delta content is token (line 147).
NextChunk(c, token) ==
    /\ pc[c] = "stream"
    /\ Len(out[c]) < MaxChunks
    /\ chunk' = [chunk EXCEPT ![c] = token]
    /\ pc' = [pc EXCEPT ![c] = "chunk"]
    /\ UNCHANGED <<stop_inference, metrics, args, history, lookup, messages, response, out,
                   cancel_calls, cancel_request>>

\* Variant: the end of the stream is reported with one more snapshot.
EndOfStreamWithSnapshot(c) ==
    /\ pc[c] = "stream"
    /\ pc' = [pc EXCEPT ![c] = "done"]
    /\ out' = [out EXCEPT ![c] =
                  Append(@, Snapshot(history[c], args[c].track_name, args[c].artist, response[c]))]
    /\ UNCHANGED <<stop_inference, metrics, args, history, lookup, messages, response, chunk,
                   cancel_calls, cancel_request>>

\* The stream signals completion: the for loop ends and the generator returns.
EndOfStream(c) ==
    /\ pc[c] = "stream"
    /\ pc' = [pc EXCEPT ![c] = "done"]
    /\ UNCHANGED <<stop_inference, metrics, locals, cancel_calls, cancel_request>>

\* Variant: the early exit leaves the text as it is.
OnCancelUnmarked(resp) == resp

\* response += "\n\n*Inference cancelled.*" (line 154)
OnCancel(resp) == resp \o CancelMarker

\* Variant: the token is put in front of the accumulated text.
AppendTokenPrepends(resp, token) == IF Truthy(token) THEN token \o resp ELSE resp

\* Variant: the token replaces the accumulated text instead of extending it.
AppendTokenOverwrites(resp, token) == IF Truthy(token) THEN token ELSE resp

\* if token: response += token (lines 157-159)
AppendToken(resp, token) == IF Truthy(token) THEN resp \o token ELSE resp

\* Variant: a request-scoped signal, true only for a call that a cancel found in flight.
CancelRequestedScoped(c) == cancel_request[c] \in {"lookup", "stream"}

\* Variant: the checkpoint honours only a cancel issued while the call was streaming.
CancelRequestedWhileStreaming(c) == stop_inference /\ cancel_request[c] = "stream"

\* Variant: the loop never looks at the flag.
CheckpointSkipped(c) == FALSE

\* if stop_inference: (line 152), the cancellation checkpoint of call c
CancelRequested(c) == stop_inference

\* Variant: the token is appended before the flag is looked at.
ProcessChunkAppendFirst(c) ==
    /\ pc[c] = "chunk"
    /\ LET a == args[c]
           appended == AppendToken(response[c], chunk[c])
       IN  IF stop_inference THEN
               /\ CANCELLED_RECOMMENDATIONS' = CANCELLED_RECOMMENDATIONS + 1
               /\ response' = [response EXCEPT ![c] = OnCancel(appended)]
               /\ out' = [out EXCEPT ![c] =
                             Append(@, Snapshot(history[c], a.track_name, a.artist,
                                                OnCancel(appended)))]
               /\ pc' = [pc EXCEPT ![c] = "done"]
               /\ cancel_request' = cancel_request
           ELSE
               /\ CANCELLED_RECOMMENDATIONS' = CANCELLED_RECOMMENDATIONS
               /\ response' = [response EXCEPT ![c] = appended]
               /\ out' = [out EXCEPT ![c] =
                             Append(@, Snapshot(history[c], a.track_name, a.artist, appended))]
               /\ pc' = [pc EXCEPT ![c] = "stream"]
               /\ cancel_request' = [cancel_request EXCEPT ![c] =
                                        IF @ = "lookup" THEN "missed_lookup"
                                        ELSE IF @ = "stream" THEN "missed_stream"
                                        ELSE @]
    /\ UNCHANGED <<stop_inference, RECOMMENDATIONS_PROCESSED, SUCCESSFUL_RECOMMENDATIONS,
                   FAILED_RECOMMENDATIONS, RECOMMENDATION_DURATION, USER_INTERACTIONS,
                   args, history, lookup, messages, chunk, cancel_calls>>

\* Variant: the early exit consumes the signal (resets the flag) as it returns.
ProcessChunkConsuming(c) ==
    /\ pc[c] = "chunk"
    /\ LET a == args[c]
       IN  IF stop_inference THEN
               /\ CANCELLED_RECOMMENDATIONS' = CANCELLED_RECOMMENDATIONS + 1
               /\ response' = [response EXCEPT ![c] = OnCancel(@)]
               /\ out' = [out EXCEPT ![c] =
                             Append(@, Snapshot(history[c], a.track_name, a.artist,
                                                OnCancel(response[c])))]
               /\ pc' = [pc EXCEPT ![c] = "done"]
               /\ cancel_request' = cancel_request
               /\ stop_inference' = FALSE
           ELSE
               /\ CANCELLED_RECOMMENDATIONS' = CANCELLED_RECOMMENDATIONS
               /\ response' = [response EXCEPT ![c] = AppendToken(@, chunk[c])]
               /\ out' = [out EXCEPT ![c] =
                             Append(@, Snapshot(history[c], a.track_name, a.artist,
                                                AppendToken(response[c], chunk[c])))]
               /\ pc' = [pc EXCEPT ![c] = "stream"]
               /\ cancel_request' = [cancel_request EXCEPT ![c] =
                                        IF @ = "lookup" THEN "missed_lookup"
                                        ELSE IF @ = "stream" THEN "missed_stream"
                                        ELSE @]
               /\ stop_inference' = stop_inference
    /\ UNCHANGED <<RECOMMENDATIONS_PROCESSED, SUCCESSFUL_RECOMMENDATIONS,
                   FAILED_RECOMMENDATIONS, RECOMMENDATION_DURATION, USER_INTERACTIONS,
                   args, history, lookup, messages, chunk, cancel_calls>>

\* The chunk-processing step, lines 152-160: the cancellation checkpoint, then
\* either the early exit or the append, and one yield.
ProcessChunk(c) ==
    /\ pc[c] = "chunk"
    /\ LET a == args[c]
       IN  IF CancelRequested(c) THEN
               /\ CANCELLED_RECOMMENDATIONS' = CANCELLED_RECOMMENDATIONS + 1
               /\ response' = [response EXCEPT ![c] = OnCancel(@)]
               /\ out' = [out EXCEPT ![c] =
                             Append(@, Snapshot(history[c], a.track_name, a.artist,
                                                OnCancel(response[c])))]
               /\ pc' = [pc EXCEPT ![c] = "done"]
               /\ cancel_request' = cancel_request
           ELSE
               /\ CANCELLED_RECOMMENDATIONS' = CANCELLED_RECOMMENDATIONS
               /\ response' = [response EXCEPT ![c] = AppendToken(@, chunk[c])]
               /\ out' = [out EXCEPT ![c] =
                             Append(@, Snapshot(history[c], a.track_name, a.artist,
                                                AppendToken(response[c], chunk[c])))]
               /\ pc' = [pc EXCEPT ![c] = "stream"]
               /\ cancel_request' = [cancel_request EXCEPT ![c] =
                                        IF @ = "lookup" THEN "missed_lookup"
                                        ELSE IF @ = "stream" THEN "missed_stream"
                                        ELSE @]
    /\ UNCHANGED <<stop_inference, RECOMMENDATIONS_PROCESSED, SUCCESSFUL_RECOMMENDATIONS,
                   FAILED_RECOMMENDATIONS, RECOMMENDATION_DURATION, USER_INTERACTIONS,
                   args, history, lookup, messages, chunk, cancel_calls>>

\* cancel_inference(), lines 163-166.  cancel_request notes, for every call whose
\* body is running, the phase in which this cancel found it ("lookup", "stream");
\* ProcessChunk turns that into "missed_..." when the call passes its checkpoint
\* with the flag already reset by another call.
Cancel ==
    /\ cancel_calls < MaxCancels
    /\ stop_inference' = TRUE
    /\ cancel_calls' = cancel_calls + 1
    /\ cancel_request' =
           [c \in Calls |->
               IF cancel_request[c] \in {"lookup", "stream"} THEN cancel_request[c]
               ELSE IF pc[c] = "lookup" THEN "lookup"
               ELSE IF pc[c] \in {"stream", "chunk"} THEN "stream"
               ELSE cancel_request[c]]
    /\ UNCHANGED <<metrics, pc, locals>>

\* ------------------------------------------------------------------- inputs
SeedTrack == <<"Shape of You">>

SeedArtist == <<"Ed Sheeran">>

\* Credential fields as the form delivers them: absent, empty or filled in.
CredentialValues == {None, <<>>, <<"key">>}

\* Seed track names as typed: a title, or nothing.
TrackNames == {SeedTrack, <<>>}

Histories == {None, <<>>, << <<(<<"hello">>), (<<"hi there">>)>> >>}

\* Arguments of one generate call studied alone.
RespondArgs ==
    [track_name : TrackNames, artist : {SeedArtist}, history : Histories,
     system_message : {DefaultSystemMessage}, use_local_model : BOOLEAN,
     client_id : CredentialValues, client_secret : CredentialValues]

\* Delta contents of a stream chunk: text, or no text (empty or absent).
Tokens == {<<"la">>, <<"di">>, <<>>, None}

\* Arguments, provider answers and chunks of calls that run concurrently.
ConcurrentArgs ==
    [track_name : {SeedTrack}, artist : {SeedArtist}, history : {<<>>},
     system_message : {DefaultSystemMessage}, use_local_model : BOOLEAN,
     client_id : {<<>>, <<"key">>}, client_secret : {<<"key">>}]

ConcurrentAnswers ==
    {[items |-> <<>>, tracks |-> <<>>],
     [items |-> <<"uri:1">>, tracks |-> <<>>],
     [items |-> <<"uri:1">>, tracks |-> <<Track1>>]}

ConcurrentTokens == {<<"la">>}

\* The system message the form starts with (line 225).
UiSystemMessage == <<"You are a music expert chatbot that provides insightful song recommendations based on user preferences.">>

\* Chat histories as the Chatbot component hands them over: up to MaxTurns
\* turns, each side a text, empty or absent; or no history at all.
UserSides == {None, <<>>, <<"hello">>}

AssistantSides == {None, <<>>, <<"hi there">>}

\* A turn with nothing on either side is taken once, as absent/absent.
Turns ==
    {t \in UserSides \X AssistantSides : Truthy(t[1]) \/ Truthy(t[2]) \/ t = <<None, None>>}

TurnHistories == {None} \cup SeqsUpTo(Turns, MaxTurns)

\* Arguments of one generate call studied for what it does with its history.
HistoryArgs ==
    [track_name : {SeedTrack}, artist : {SeedArtist}, history : TurnHistories,
     system_message : {DefaultSystemMessage, UiSystemMessage}, use_local_model : BOOLEAN,
     client_id : {<<"key">>}, client_secret : {<<"key">>}]

\* The provider's answer in those calls: one match, one recommended track.
HistoryAnswers == {[items |-> <<"uri:1">>, tracks |-> <<Track2>>]}

\* ----------------------------------------------------------- specifications
\* Spec: the calls of Calls and cancel_inference under every interleaving.
Next ==
    \/ \E c \in Calls, a \in ConcurrentArgs : Respond(c, a)
    \/ \E c \in Calls : Start(c)
    \/ \E c \in Calls, p \in ConcurrentAnswers : Prepare(c, p)
    \/ \E c \in Calls, token \in ConcurrentTokens : NextChunk(c, token)
    \/ \E c \in Calls : EndOfStream(c)
    \/ \E c \in Calls : ProcessChunk(c)
    \/ Cancel

Spec == Init /\ [][Next]_vars

\* The consumer of a generate call (the UI's event queue) keeps iterating the
\* generator it was given, the lookup's provider requests return, and the
\* backend stream always makes its next move: another chunk, or completion once
\* it has delivered its chunks (at most MaxChunks of them).
Driven(c) ==
    /\ WF_vars(Start(c))
    /\ WF_vars(\E p \in ConcurrentAnswers : Prepare(c, p))
    /\ WF_vars((\E token \in ConcurrentTokens : NextChunk(c, token)) \/ EndOfStream(c))
    /\ WF_vars(ProcessChunk(c))

FairSpec == Spec /\ \A c \in Calls : Driven(c)

\* SpecOne: one generate call with the full range of arguments, provider answers
\* and chunks, and cancel_inference at any moment.
NextOne ==
    \/ \E a \in RespondArgs : Respond("A", a)
    \/ Start("A")
    \/ \E p \in ProviderAnswers : Prepare("A", p)
    \/ \E token \in Tokens : NextChunk("A", token)
    \/ EndOfStream("A")
    \/ ProcessChunk("A")
    \/ Cancel

SpecOne == Init /\ [][NextOne]_vars

\* SpecHistory: one generate call over the full range of chat histories and
\* system messages, and cancel_inference at any moment.
NextHistory ==
    \/ \E a \in HistoryArgs : Respond("A", a)
    \/ Start("A")
    \/ \E p \in HistoryAnswers : Prepare("A", p)
    \/ \E token \in ConcurrentTokens : NextChunk("A", token)
    \/ EndOfStream("A")
    \/ ProcessChunk("A")
    \/ Cancel

SpecHistory == Init /\ [][NextHistory]_vars

\* =================================================================== claims
\* The response text of a snapshot: the assistant side of its last turn.
SnapshotText(snap) == snap[Len(snap)][2]

LastText(c) == SnapshotText(out[c][Len(out[c])])

EndsWithMarker(text) == IsSuffix(CancelMarker, text)

\* The call has returned through the cancellation early exit.
EndedCancelled(c) == pc[c] = "done" /\ out[c] # <<>> /\ EndsWithMarker(LastText(c))

\* In this step call c runs its chunk-processing step.
ProcessStep(c) == pc[c] = "chunk" /\ pc'[c] # "chunk"

\* In this step cancel_inference is invoked.
CancelStep == cancel_calls' = cancel_calls + 1

MidStream(c) == pc[c] \in {"stream", "chunk"}

InFlight(c) == pc[c] \in {"lookup", "stream", "chunk"}

\* C1 (SpecOne): cancellation determinism.  A chunk-processing step taken while
\* stop_inference is true emits exactly one more snapshot, whose text ends with
\* the cancellation marker, and ends the call; a call that has ended emits
\* nothing further; with one call in flight the flag, once true, stays true
\* until that step, and no snapshot other than the marker one is emitted
\* meanwhile (so after cancel() behind the second snapshot, the third is last).
C1_CancellationDeterminism ==
    [][\A c \in Calls :
          /\ (ProcessStep(c) /\ stop_inference) =>
                 /\ pc'[c] = "done"
                 /\ Len(out'[c]) = Len(out[c]) + 1
                 /\ SubSeq(out'[c], 1, Len(out[c])) = out[c]
                 /\ EndsWithMarker(SnapshotText(out'[c][Len(out'[c])]))
          /\ pc[c] = "done" => (pc'[c] = "done" /\ out'[c] = out[c])
          /\ (stop_inference /\ MidStream(c)) =>
                 /\ stop_inference'
                 /\ (out'[c] # out[c] => ProcessStep(c))
      ]_vars

\* Scenario C reached: cancel() found the call mid-stream, two token snapshots
\* were out, and the third snapshot is the marker one that ended the call.
C1_Witness ==
    /\ EndedCancelled("A")
    /\ Len(out["A"]) = 3
    /\ cancel_request["A"] = "stream"
    /\ ~EndsWithMarker(SnapshotText(out["A"][2]))
    /\ SnapshotText(out["A"][2]) # SnapshotText(out["A"][1])

\* C2 (Spec): cancel() when idle.  cancel_inference can always be invoked,
\* changes no metric and nothing of any call, only sets the flag, and on a flag
\* already set changes nothing at all; every call resets the flag when its body
\* starts, so whenever the flag is true while a call is in flight, the cancel
\* was issued after that call's body started (a cancel issued earlier never
\* reaches a later call).
C2_CancelIdempotentWhenIdle ==
    /\ [](\A c \in Calls :
             (InFlight(c) /\ stop_inference) => cancel_request[c] \in {"lookup", "stream"})
    /\ [](cancel_calls < MaxCancels => ENABLED Cancel)
    /\ [][/\ CancelStep =>
                 /\ stop_inference'
                 /\ UNCHANGED <<metrics, pc, locals>>
                 /\ (stop_inference => UNCHANGED stop_inference)
          /\ \A c \in Calls : (pc[c] = "created" /\ pc'[c] = "lookup") => ~stop_inference'
         ]_vars

\* cancel() was invoked twice before the body of call A started and never
\* after; A then ran its whole stream and ended uncancelled.
C2_Witness ==
    /\ cancel_calls >= 2
    /\ ~stop_inference
    /\ pc["B"] = "idle"
    /\ pc["A"] = "done"
    /\ cancel_request["A"] = "none"
    /\ Len(out["A"]) >= 2
    /\ ~EndsWithMarker(LastText("A"))
    /\ CANCELLED_RECOMMENDATIONS = 0

RECURSIVE SplitLines(_)
\* The lines of a text: its pieces between the "\n" pieces.
SplitLines(text) ==
    IF \A i \in 1..Len(text) : text[i] # "\n" THEN <<text>>
    ELSE LET i == CHOOSE j \in 1..Len(text) :
                      text[j] = "\n" /\ \A k \in 1..(j - 1) : text[k] # "\n"
         IN  <<SubSeq(text, 1, i - 1)>> \o SplitLines(SubSeq(text, i + 1, Len(text)))

\* The pieces of generated text a chunk can carry.
TokenPieces == {t[1] : t \in {u \in Tokens : Truthy(u)}}

\* The text shows generation tokens behind the header.
HasTokens(text, header) ==
    \E i \in (Len(header) + 1)..Len(text) : text[i] \in TokenPieces

\* The header block of call c, from its arguments and the lookup's text.
HeaderOf(c) == Header(args[c].track_name, args[c].artist, lookup[c].text)

\* The tracks the provider recommended to call c (after a successful lookup).
RecommendedTracks(c) == lookup[c].requests[2].reply

C4_DurationSpansCall ==
    \A c \in Calls :
        /\ Len(RECOMMENDATION_DURATION[c]) <= 1
        /\ pc[c] = "done" => Len(RECOMMENDATION_DURATION[c]) = 1
        /\ RECOMMENDATION_DURATION[c] # <<>> =>
               /\ pc[c] = "done"
               /\ RECOMMENDATION_DURATION[c][1] = Len(out[c])

\* C5 (Spec): one cancel() for two calls.  When cancel_inference has been
\* invoked once, and that once found both calls mid-stream (no call has started
\* since), the next chunk-processing step of either call is the early exit: one
\* marker snapshot, the call ends, CANCELLED_RECOMMENDATIONS goes up by one; and
\* once both have taken it the counter stands at two.
C5_OneCancelStopsBothCalls ==
    /\ [][\A c \in Calls :
             (/\ cancel_calls = 1
              /\ \A d \in Calls : cancel_request[d] = "stream"
              /\ ProcessStep(c)) =>
                 /\ pc'[c] = "done"
                 /\ Len(out'[c]) = Len(out[c]) + 1
                 /\ EndsWithMarker(SnapshotText(out'[c][Len(out'[c])]))
                 /\ CANCELLED_RECOMMENDATIONS' = CANCELLED_RECOMMENDATIONS + 1
         ]_vars
    /\ []((/\ cancel_calls = 1
           /\ \A d \in Calls : cancel_request[d] = "stream" /\ EndedCancelled(d))
              => CANCELLED_RECOMMENDATIONS = Cardinality(Calls))

\* Both calls were mid-stream at the single cancel() and both have ended with
\* the marker snapshot; the counter shows two cancellations.
C5_Witness ==
    /\ cancel_calls = 1
    /\ \A d \in Calls : cancel_request[d] = "stream" /\ EndedCancelled(d)
    /\ CANCELLED_RECOMMENDATIONS = 2

\* C6 (Spec): a lost cancel().  A call that cancel_inference found mid-stream,
\* and that reaches its next chunk-processing step after another call's start
\* has reset the flag, is not cancelled: the step appends the chunk's text,
\* emits an ordinary snapshot, leaves CANCELLED_RECOMMENDATIONS alone and the
\* call goes on streaming.
C6_CancelLostByReset ==
    [][\A c \in Calls :
          (/\ cancel_request[c] = "stream"
           /\ ~stop_inference
           /\ ProcessStep(c)) =>
              /\ pc'[c] = "stream"
              /\ response'[c] = (IF Truthy(chunk[c]) THEN response[c] \o chunk[c]
                                 ELSE response[c])
              /\ Len(out'[c]) = Len(out[c]) + 1
              /\ SnapshotText(out'[c][Len(out'[c])]) = response'[c]
              /\ ~EndsWithMarker(response'[c])
              /\ UNCHANGED CANCELLED_RECOMMENDATIONS
      ]_vars

\* cancel() found A mid-stream, B's start reset the flag first, and A has since
\* passed its checkpoint and emitted a further token snapshot; nothing was
\* counted as cancelled.
C6_Witness ==
    /\ cancel_calls = 1
    /\ cancel_request["A"] = "missed_stream"
    /\ cancel_request["B"] = "none"
    /\ pc["B"] # "idle"
    /\ Len(out["A"]) >= 2
    /\ ~EndsWithMarker(LastText("A"))
    /\ CANCELLED_RECOMMENDATIONS = 0

PastLookup(c) == pc[c] \in {"stream", "chunk", "done"}

\* In this step call c's lookup returns and the call moves on.
PrepareStep(c) == pc[c] = "lookup" /\ pc'[c] # "lookup"

MissingCredential(c) ==
    \/ args[c].client_id \in {None, <<>>}
    \/ args[c].client_secret \in {None, <<>>}

\* The failure text that belongs to the way call c's lookup failed.
FailureText(c, requests) ==
    IF MissingCredential(c) THEN <<"Please provide Spotify API credentials.">>
    ELSE IF requests[1].reply = <<>>
         THEN <<"No tracks found for the given track name and artist.">>
         ELSE <<"No recommendations found.">>

\* C7 (SpecOne): lookup failures do not abort.  When the lookup of a call fails
\* (missing credentials, no track, no recommendations), the text of that
\* failure is what the header block and the final user message embed, the API
\* call moves on to its stream without having emitted anything, and its chunk
\* steps append and emit as for any call.
C7_LookupFailureProceeds ==
    /\ [][\A c \in Calls :
             /\ (PrepareStep(c) /\ lookup'[c].failed = 1) =>
                    LET a == args[c]
                        text == FailureText(c, lookup'[c].requests)
                    IN  /\ lookup'[c].text = text
                        /\ messages'[c][Len(messages'[c])] =
                               [role |-> "user",
                                content |-> UserMessage(a.track_name, a.artist, text)]
                        /\ IsPrefix(Header(a.track_name, a.artist, text), response'[c])
                        /\ ~a.use_local_model =>
                               /\ pc'[c] = "stream"
                               /\ response'[c] = Header(a.track_name, a.artist, text)
                               /\ out'[c] = <<>>
             /\ (ProcessStep(c) /\ lookup[c].failed = 1 /\ ~stop_inference) =>
                    /\ pc'[c] = "stream"
                    /\ Len(out'[c]) = Len(out[c]) + 1
                    /\ IsPrefix(response[c], response'[c])
                    /\ SnapshotText(out'[c][Len(out'[c])]) = response'[c]
         ]_vars
    /\ [](\A c \in Calls :
             (pc[c] = "stream" /\ Len(out[c]) < MaxChunks) =>
                 ENABLED (NextChunk(c, <<"la">>)))

\* A call without credentials streamed two tokens behind the header that
\* carries the missing-credentials text.
C7_Witness ==
    /\ lookup["A"].failed = 1
    /\ lookup["A"].text = MissingCredentialsText
    /\ ~args["A"].use_local_model
    /\ Len(out["A"]) = 2
    /\ LastText("A") = HeaderOf("A") \o <<"la", "di">>

\* C8 (SpecOne): fail fast on credentials.  A call of which at least one
\* credential is absent or empty gets the missing-credentials failure from its
\* lookup, counted as one failure, and the lookup has sent the provider no
\* request of any kind, whatever the track name.
C8_MissingCredentialsNoProviderCall ==
    \A c \in Calls :
        (PastLookup(c) /\ MissingCredential(c)) =>
            /\ lookup[c].text = <<"Please provide Spotify API credentials.">>
            /\ lookup[c].requests = <<>>
            /\ lookup[c].failed = 1
            /\ lookup[c].successful = 0

\* A lookup with a client id but an empty secret has returned.
C8_Witness ==
    /\ PastLookup("A")
    /\ args["A"].client_id = <<"key">>
    /\ args["A"].client_secret = <<>>
    /\ args["A"].track_name = SeedTrack
    /\ lookup["A"].requests = <<>>

\* C9 (SpecOne): unconfigured local backend.  With use_local_model the step
\* that follows the lookup ends the call: exactly one snapshot, its text the
\* header block followed by the configuration-error notice, the failure counter
\* up by one beyond what the lookup counted, the cancellation counter
\* untouched, whatever stop_inference is; no token and no marker ever shows.
C9_LocalBackendUnavailable ==
    /\ [][\A c \in Calls :
             (PrepareStep(c) /\ args[c].use_local_model) =>
                 /\ pc'[c] = "done"
                 /\ Len(out'[c]) = 1
                 /\ SnapshotText(out'[c][1]) =
                        Header(args[c].track_name, args[c].artist, lookup'[c].text)
                            \o LocalModelError
                 /\ FAILED_RECOMMENDATIONS' = FAILED_RECOMMENDATIONS + lookup'[c].failed + 1
                 /\ UNCHANGED CANCELLED_RECOMMENDATIONS
         ]_vars
    /\ [](\A c \in Calls :
             args[c].use_local_model =>
                 /\ ~MidStream(c)
                 /\ Len(out[c]) <= 1
                 /\ \A k \in 1..Len(out[c]) :
                        /\ ~HasTokens(SnapshotText(out[c][k]), HeaderOf(c))
                        /\ ~EndsWithMarker(SnapshotText(out[c][k])))

\* A local-backend call ended with its single error snapshot although
\* cancel() had been invoked during its lookup and the flag is still set.
C9_Witness ==
    /\ args["A"].use_local_model
    /\ pc["A"] = "done"
    /\ stop_inference
    /\ cancel_request["A"] = "lookup"
    /\ Len(out["A"]) = 1
    /\ CANCELLED_RECOMMENDATIONS = 0

\* Calls that ended in the configuration-error exit.
ConfigErrors == Cardinality({c \in Calls : pc[c] = "done" /\ args[c].use_local_model})

\* C10 (Spec): counters of the recommendation step.  Every lookup that has
\* returned counted exactly one of success and failure; the step in which a
\* lookup returns raises success + failure by one (and by one more only for the
\* configuration error), Start raises USER_INTERACTIONS by one, and no other
\* step touches these counters; so success + failure, less the configuration
\* errors, equals USER_INTERACTIONS less the lookups still running.
C10_LookupCountsOnePerCall ==
    /\ [](\A c \in Calls : PastLookup(c) => lookup[c].successful + lookup[c].failed = 1)
    /\ [](SUCCESSFUL_RECOMMENDATIONS + FAILED_RECOMMENDATIONS - ConfigErrors
              = USER_INTERACTIONS - Cardinality({c \in Calls : pc[c] = "lookup"}))
    /\ [](USER_INTERACTIONS = Cardinality({c \in Calls : pc[c] \notin {"idle", "created"}}))
    /\ [][/\ \A c \in Calls :
                PrepareStep(c) =>
                    /\ (SUCCESSFUL_RECOMMENDATIONS' + FAILED_RECOMMENDATIONS')
                           - (SUCCESSFUL_RECOMMENDATIONS + FAILED_RECOMMENDATIONS)
                         = 1 + (IF args[c].use_local_model THEN 1 ELSE 0)
                    /\ SUCCESSFUL_RECOMMENDATIONS' - SUCCESSFUL_RECOMMENDATIONS
                         = lookup'[c].successful
          /\ (\A c \in Calls : ~PrepareStep(c)) =>
                UNCHANGED <<SUCCESSFUL_RECOMMENDATIONS, FAILED_RECOMMENDATIONS>>
          /\ USER_INTERACTIONS' - USER_INTERACTIONS
                = Cardinality({c \in Calls : pc[c] = "created" /\ pc'[c] # "created"})
         ]_vars

\* Two calls have completed, one through a failed lookup and one through a
\* successful one: two interactions, one success, one failure.
C10_Witness ==
    /\ \A c \in Calls : pc[c] = "done" /\ ~args[c].use_local_model
    /\ lookup["A"].text = NoRecommendationsText
    /\ lookup["B"].successful = 1
    /\ USER_INTERACTIONS = 2
    /\ SUCCESSFUL_RECOMMENDATIONS = 1
    /\ FAILED_RECOMMENDATIONS = 1

\* Calls that have emitted a snapshot whose text ends with the cancellation marker.
MarkerCalls ==
    {c \in Calls : \E k \in 1..Len(out[c]) : EndsWithMarker(SnapshotText(out[c][k]))}

\* C11 (Spec): the cancellations counter.  CANCELLED_RECOMMENDATIONS equals the
\* number of calls that have emitted a marker snapshot; a marker snapshot is a
\* call's last and the call has ended; the counter moves only in the
\* chunk-processing step of one call taken with the flag set, by one; a call
\* that ended naturally or in the configuration error has no marker snapshot,
\* whatever cancel_inference did meanwhile.
C11_CancelledCountsMarkerCalls ==
    /\ [](CANCELLED_RECOMMENDATIONS = Cardinality(MarkerCalls))
    /\ [](\A c \in Calls :
             \A k \in 1..Len(out[c]) :
                 EndsWithMarker(SnapshotText(out[c][k])) =>
                     (k = Len(out[c]) /\ pc[c] = "done" /\ ~args[c].use_local_model))
    /\ [][CANCELLED_RECOMMENDATIONS' # CANCELLED_RECOMMENDATIONS =>
             /\ CANCELLED_RECOMMENDATIONS' = CANCELLED_RECOMMENDATIONS + 1
             /\ stop_inference
             /\ Cardinality({c \in Calls : ProcessStep(c)}) = 1
         ]_vars

\* cancel() found both calls mid-stream; A's stream then ended by itself, B
\* took the early exit: one cancellation counted, and the flag still set.
C11_Witness ==
    /\ pc["A"] = "done"
    /\ ~EndedCancelled("A")
    /\ cancel_request["A"] = "stream"
    /\ stop_inference
    /\ EndedCancelled("B")
    /\ CANCELLED_RECOMMENDATIONS = 1

\* C12 (SpecOne): cancel() during the lookup.  The step in which the lookup
\* returns still records the lookup's counters and leaves the flag as it is;
\* the flag then stays set with nothing emitted until the call's first
\* chunk-processing step, which ends the call with one snapshot: the header
\* block followed by the cancellation marker.
C12_CancelDuringLookupPends ==
    /\ [][\A c \in Calls :
             /\ (PrepareStep(c) /\ cancel_request[c] = "lookup") =>
                    /\ UNCHANGED stop_inference
                    /\ lookup'[c].successful + lookup'[c].failed = 1
                    /\ SUCCESSFUL_RECOMMENDATIONS' =
                           SUCCESSFUL_RECOMMENDATIONS + lookup'[c].successful
                    /\ FAILED_RECOMMENDATIONS' >= FAILED_RECOMMENDATIONS + lookup'[c].failed
                    /\ ~args[c].use_local_model => (pc'[c] = "stream" /\ out'[c] = <<>>)
             /\ (ProcessStep(c) /\ cancel_request[c] = "lookup") =>
                    /\ pc'[c] = "done"
                    /\ out'[c] = <<Snapshot(history[c], args[c].track_name, args[c].artist,
                                            HeaderOf(c) \o CancelMarker)>>
         ]_vars
    /\ [](\A c \in Calls :
             (cancel_request[c] = "lookup" /\ InFlight(c)) =>
                 (stop_inference /\ out[c] = <<>> /\ CANCELLED_RECOMMENDATIONS = 0))

\* cancel() came during A's successful lookup; A ended with the single
\* snapshot "header, marker" although a text chunk had arrived.
C12_Witness ==
    /\ cancel_request["A"] = "lookup"
    /\ lookup["A"].successful = 1
    /\ SUCCESSFUL_RECOMMENDATIONS = 1
    /\ pc["A"] = "done"
    /\ chunk["A"] = <<"la">>
    /\ Len(out["A"]) = 1
    /\ LastText("A") = HeaderOf("A") \o CancelMarker

\* C13 (SpecOne): the chunk in hand is discarded on the early exit.  While a
\* call streams, its response text is that of its latest snapshot (the header
\* block if there is none); a chunk-processing step taken with the flag set
\* emits that text followed by the marker, whatever the chunk carries; and an
\* ended call pulls no further chunk.
C13_EarlyExitDiscardsChunk ==
    /\ [](\A c \in Calls :
             MidStream(c) =>
                 response[c] = (IF out[c] = <<>> THEN HeaderOf(c) ELSE LastText(c)))
    /\ [][\A c \in Calls :
             (ProcessStep(c) /\ stop_inference) =>
                 /\ Len(out'[c]) = Len(out[c]) + 1
                 /\ SnapshotText(out'[c][Len(out'[c])]) =
                        (IF out[c] = <<>> THEN HeaderOf(c) ELSE LastText(c)) \o CancelMarker
                 /\ pc'[c] = "done"
         ]_vars
    /\ [](\A c \in Calls :
             pc[c] = "done" => \A token \in Tokens : ~ENABLED NextChunk(c, token))

\* The chunk "di" had been received when the check fired: the final snapshot
\* is "header, la, marker" and "di" appears nowhere.
C13_Witness ==
    /\ EndedCancelled("A")
    /\ chunk["A"] = <<"di">>
    /\ Len(out["A"]) = 2
    /\ SnapshotText(out["A"][1]) = HeaderOf("A") \o <<"la">>
    /\ LastText("A") = HeaderOf("A") \o <<"la">> \o CancelMarker

\* The text a chunk carries: nothing when its content is absent or empty.
ChunkText(token) == IF token = None THEN <<>> ELSE token

\* C14 (SpecOne): growth by append, in stream order.  Every snapshot's text
\* starts with the header block and extends the previous snapshot's text; the
\* stream is entered with the bare header as response text, and each
\* chunk-processing step taken with the flag clear extends the response text
\* by exactly the text of the chunk just received and emits it as one more
\* snapshot, also when the chunk carries no text (the snapshot then repeats
\* the previous text).
C14_ResponseGrowsByAppend ==
    /\ [](\A c \in Calls :
             \A k \in 1..Len(out[c]) :
                 /\ IsPrefix(HeaderOf(c), SnapshotText(out[c][k]))
                 /\ k > 1 => IsPrefix(SnapshotText(out[c][k - 1]), SnapshotText(out[c][k])))
    /\ [][\A c \in Calls :
             /\ (PrepareStep(c) /\ pc'[c] = "stream") =>
                    response'[c] = Header(args[c].track_name, args[c].artist, lookup'[c].text)
             /\ (ProcessStep(c) /\ ~stop_inference) =>
                    /\ response'[c] = response[c] \o ChunkText(chunk[c])
                    /\ out'[c] = Append(out[c], Snapshot(history[c], args[c].track_name,
                                                         args[c].artist, response'[c]))
                    /\ pc'[c] = "stream"
         ]_vars

\* Three chunks "la", no text, "di" gave three snapshots: header+la, the same
\* again, header+la+di.
C14_Witness ==
    /\ Len(out["A"]) = 3
    /\ SnapshotText(out["A"][1]) = HeaderOf("A") \o <<"la">>
    /\ SnapshotText(out["A"][2]) = HeaderOf("A") \o <<"la">>
    /\ SnapshotText(out["A"][3]) = HeaderOf("A") \o <<"la", "di">>

\* The history a call was given, a missing one taken as empty.
GivenHistory(c) == IF args[c].history = None THEN <<>> ELSE args[c].history

\* C15 (SpecHistory): the shape of a snapshot.  Every snapshot is the history
\* the call was given (none counting as empty), turn for turn, followed by one
\* turn whose user side is "{track} by {artist}"; the assistant side of the
\* latest snapshot is the current response text; and the history the call
\* works on stays what the caller passed, from the call's start to its end.
C15_SnapshotIsHistoryPlusTurn ==
    /\ [](\A c \in Calls :
             /\ pc[c] \notin {"idle", "created"} => history[c] = GivenHistory(c)
             /\ \A k \in 1..Len(out[c]) :
                    LET snap == out[c][k]
                        n == Len(GivenHistory(c))
                    IN  /\ Len(snap) = n + 1
                        /\ \A i \in 1..n : snap[i] = GivenHistory(c)[i]
                        /\ snap[n + 1][1] = args[c].track_name \o <<" by ">> \o args[c].artist
                        /\ k = Len(out[c]) => snap[n + 1][2] = response[c])
    /\ [][\A c \in Calls :
             /\ pc[c] # "idle" => args'[c].history = args[c].history
             /\ pc[c] \notin {"idle", "created"} => history'[c] = history[c]
             /\ IsPrefix(out[c], out'[c])
          ]_vars

\* A call given two turns (one with an absent assistant side) has emitted two
\* snapshots of three turns each.
C15_Witness ==
    /\ args["A"].history = << <<(<<"hello">>), None>>, <<(<<>>), (<<"hi there">>)>> >>
    /\ Len(out["A"]) = 2
    /\ Len(out["A"][1]) = 3
    /\ Len(out["A"][2]) = 3
    /\ out["A"][1] # out["A"][2]

\* Both sides of every turn, in the order the turns were given.
RECURSIVE AllSides(_)
AllSides(h) ==
    IF h = <<>> THEN <<>>
    ELSE << [role |-> "user", content |-> Head(h)[1]],
            [role |-> "assistant", content |-> Head(h)[2]] >> \o AllSides(Tail(h))

NonEmptySide(m) == m.content # None /\ m.content # <<>>

\* C17 (SpecHistory): the message list sent to the generation backend starts
\* with one system message carrying the system prompt, continues with one
\* message per non-empty side of the given history (user before assistant
\* within a turn, turns in order, absent and empty sides skipped), and ends
\* with one user message embedding the seed track, the artist and the
\* lookup's text; its length is 2 plus the number of non-empty sides.
C17_MessageListShape ==
    \A c \in Calls :
        pc[c] \in {"stream", "chunk"} =>
            LET h == GivenHistory(c)
                n == Cardinality({s \in (1..Len(h)) \X {1, 2} : h[s[1]][s[2]] \notin {None, <<>>}})
                m == messages[c]
            IN  /\ Len(m) = 2 + n
                /\ m[1] = [role |-> "system", content |-> args[c].system_message]
                /\ SubSeq(m, 2, n + 1) = SelectSeq(AllSides(h), NonEmptySide)
                /\ m[n + 2] = [role |-> "user",
                                content |-> UserMessage(args[c].track_name, args[c].artist,
                                                        lookup[c].text)]

\* The backend is about to be read with a list built from two turns, of which
\* the first has no assistant side and the second an empty user side.
C17_Witness ==
    /\ pc["A"] = "stream"
    /\ args["A"].history = << <<(<<"hello">>), None>>, <<(<<>>), (<<"hi there">>)>> >>
    /\ args["A"].system_message = UiSystemMessage
    /\ Len(messages["A"]) = 4

\* C18 (SpecOne): the lookup's outcomes with both credentials present, in
\* order.  The provider is searched first; no match gives the no-track
\* failure and no further request.  Otherwise recommendations are requested
\* once, seeded on the first match; an empty reply gives the
\* no-recommendations failure; otherwise the text has one line
\* "{title} by {first artist}" per returned track, in the provider's order,
\* repeated tracks included.
C18_LookupOutcomeOrder ==
    \A c \in Calls :
        (PastLookup(c) /\ ~MissingCredential(c)) =>
            LET r == lookup[c].requests
                text == lookup[c].text
            IN  /\ Len(r) \in {1, 2}
                /\ r[1].op = "search"
                /\ r[1].reply = <<>> =>
                       /\ Len(r) = 1
                       /\ text = NoTracksText
                       /\ lookup[c].failed = 1 /\ lookup[c].successful = 0
                /\ r[1].reply # <<>> =>
                       /\ Len(r) = 2
                       /\ r[2].op = "recommendations"
                       /\ r[2].arg = <<r[1].reply[1]>>
                       /\ r[2].reply = <<>> =>
                              /\ text = NoRecommendationsText
                              /\ lookup[c].failed = 1 /\ lookup[c].successful = 0
                       /\ r[2].reply # <<>> =>
                              /\ lookup[c].failed = 0 /\ lookup[c].successful = 1
                              /\ Len(SplitLines(text)) = Len(r[2].reply)
                              /\ \A i \in 1..Len(r[2].reply) :
                                     SplitLines(text)[i] =
                                         r[2].reply[i].name \o <<" by ">>
                                             \o r[2].reply[i].artists[1]

\* Two matches were found and the first seeded the request; the provider
\* recommended the two-artist track twice, and both lines were returned.
C18_Witness ==
    /\ PastLookup("A")
    /\ ~args["A"].use_local_model
    /\ Len(lookup["A"].requests) = 2
    /\ lookup["A"].requests[1].reply = <<"uri:2", "uri:1">>
    /\ lookup["A"].requests[2].arg = <<"uri:2">>
    /\ lookup["A"].requests[2].reply = <<Track1, Track1>>
    /\ lookup["A"].text = <<"Perfect", " by ", "Ed Sheeran", "\n", "Perfect", " by ", "Ed Sheeran">>

\* The texts with which a lookup reports a failure.
LookupFailureTexts == {MissingCredentialsText, NoTracksText, NoRecommendationsText}

C16_CallTerminates ==
    /\ [][\A c \in Calls :
             /\ (pc[c] # "done" /\ pc'[c] = "done") =>
                    \/ /\ pc[c] = "stream"
                       /\ out'[c] = out[c]
                       /\ response'[c] = response[c]
                       /\ ~EndsWithMarker(response'[c])
                    \/ /\ pc[c] = "chunk"
                       /\ stop_inference
                       /\ Len(out'[c]) = Len(out[c]) + 1
                       /\ EndsWithMarker(SnapshotText(out'[c][Len(out'[c])]))
                    \/ /\ pc[c] = "lookup"
                       /\ args[c].use_local_model
                       /\ Len(out'[c]) = Len(out[c]) + 1
                       /\ IsSuffix(LocalModelError, SnapshotText(out'[c][Len(out'[c])]))
             /\ pc[c] = "done" => (pc'[c] = "done" /\ out'[c] = out[c])
          ]_vars
    /\ \A c \in Calls : (pc[c] = "created") ~> (pc[c] = "done")

\* Both calls have ended, one at the end of its stream after two snapshots,
\* neither carrying the marker, and one by the cancellation exit.
C16_Witness ==
    /\ pc["A"] = "done" /\ pc["B"] = "done"
    /\ ~args["A"].use_local_model
    /\ Len(out["A"]) = 2
    /\ ~EndedCancelled("A")
    /\ EndedCancelled("B")

====
